---- MODULE Spec2Model ----
(***************************************************************************)
(* Model of kern/arch/mips/mips/dumbvm.c: the buddy frame allocator, the   *)
(* address-space object and the TLB miss handler.                          *)
(*                                                                         *)
(* 32-bit words (paddr_t, vaddr_t, size_t, TLB words) are records          *)
(* [pg, off] standing for pg * PAGE_SIZE + off with pg in 0..PAGES32-1 and *)
(* off in 0..PAGE_SIZE-1, so that arithmetic wraps modulo 2^32 exactly as  *)
(* the C code does; a word is page-aligned iff its off is 0.               *)
(*                                                                         *)
(* Kernel threads share one CPU.  A call that blocks (vfs_open, VOP_READ)  *)
(* or that runs with interrupts enabled between two sections of the        *)
(* allocator is a sequence of steps: pc[t] is the place where thread t     *)
(* stands inside such a call, and the steps of other threads run in        *)
(* between.  One step is the code from one such place to the next: a       *)
(* splhigh()..splx() section, one freeppage call or one printing of the    *)
(* buddy list, preceded by the statements that lead to it from the place   *)
(* before.  What getppages returned is in the caller's hands (pc[t].addr)  *)
(* when it releases the interrupt level; the caller stores it in the       *)
(* descriptor in its next step.                                            *)
(***************************************************************************)
EXTENDS Integers, Sequences, FiniteSets, TLC

VARIABLES
    ram,            \* [lo, hi]: the free RAM at boot and, once vm_bootstrap
                    \* has called ram_getsize, what ram_getsize reported
    firstpaddr,     \* the boot-time stealer's next frame
    vm_initialized, \* int vm_initialized
    randdev,        \* struct vnode *randdev: 0 for NULL, 1 for the device that
                    \* vfs_open("random:") stored
    buddylist,      \* struct array *buddylist: sequence of buddy_entry
    spaces,         \* the addrspace descriptors, by descriptor id
    live,           \* ids of the descriptors that are allocated (not kfree'd)
    curas,          \* curthread->t_vmspace: a descriptor id, or 0 for NULL
    tlb,            \* the NUM_TLB hardware TLB slots, each [ehi, elo]
    curspl,         \* the CPU's current interrupt priority level
    panicked,       \* the kernel has panicked (panic() or a failed assert)
    nfaults,        \* number of vm_fault calls made so far (capped by MaxFaults)
    ndefine,        \* per descriptor: as_define_region calls since as_create
    mem,            \* content of each page of RAM, by physical page number
    listspl,        \* interrupt level in force while the step that ran last
                    \* read or wrote buddylist (-1: it did not touch it)
    pc,             \* per kernel thread: the call it is inside and the place
    last            \* the step that ran last, its inputs and its result

vars == <<ram, firstpaddr, vm_initialized, randdev, buddylist, spaces, live, curas, tlb,
          curspl, panicked, nfaults, ndefine, mem, listspl, pc, last>>

(***************************************************************************)
(* Program constants                                                       *)
(***************************************************************************)
PAGE_SIZE == 4096
\* number of pages in the 32-bit address space (2^32 / PAGE_SIZE)
PAGES32 == 1048576
DUMBVM_STACKPAGES == 12
NUM_TLB == 64
TLBLO_VALID == 512
TLBLO_DIRTY == 1024
\* page number of MIPS_KSEG0 = 0x80000000
KSEG0_PAGE == 524288
SPL_HIGH == 15
VM_FAULT_READ == 0
VM_FAULT_WRITE == 1
VM_FAULT_READONLY == 2
EUNIMP == 1
ENOMEM == 2
EFAULT == 5
EINVAL == 7

(***************************************************************************)
(* Bounds of the model                                                     *)
(***************************************************************************)
\* RAM sizes (in pages) tried by the allocator-only specification: 1..MaxRamPages
MaxRamPages == 5
\* largest request passed to alloc_kpages in the allocator-only specification
MaxReq == 2
\* the kernel heap holds at most this many buddy_entry objects: kmalloc
\* returns NULL beyond it
MaxBuddies == 60
\* the kernel heap holds at most this many addrspace descriptors
MaxAS == 2
\* RAM size (in pages) of the specifications that build address spaces
ASRamPages == 48
\* number of vm_fault calls with freely chosen arguments in one behaviour
MaxFaults == 1
\* number of as_define_region calls made on one address space
MaxDefine == 3
\* the kernel threads that can be inside a call at the same time
Threads == {1, 2}

(***************************************************************************)
(* 32-bit words                                                            *)
(***************************************************************************)
U32(pg, off) == [pg |-> pg, off |-> off]
Zero32 == U32(0, 0)

\* a & PAGE_FRAME
PageFrame(a) == U32(a.pg, 0)
\* a & ~PAGE_FRAME, as an integer in 0..PAGE_SIZE-1
PageOffset(a) == a.off
\* a + n (mod 2^32), n a non-negative integer
Add32(a, n) ==
    LET t == a.off + n
    IN  U32((a.pg + (t \div PAGE_SIZE)) % PAGES32, t % PAGE_SIZE)
\* a - b (mod 2^32)
Sub32(a, b) ==
    LET borrow == IF a.off < b.off THEN 1 ELSE 0
    IN  U32((a.pg - b.pg - borrow + 2 * PAGES32) % PAGES32,
            (a.off - b.off + PAGE_SIZE) % PAGE_SIZE)
\* a + b (mod 2^32), both words
AddW(a, b) ==
    LET t == a.off + b.off
    IN  U32((a.pg + b.pg + (t \div PAGE_SIZE)) % PAGES32, t % PAGE_SIZE)
\* unsigned a < b, a >= b
Lt32(a, b) == a.pg < b.pg \/ (a.pg = b.pg /\ a.off < b.off)
Ge32(a, b) == ~Lt32(a, b)
\* a physical address as a byte count
Lin(a) == a.pg * PAGE_SIZE + a.off

\* PADDR_TO_KVADDR / KVADDR_TO_PADDR: the fixed offset MIPS_KSEG0
PADDR_TO_KVADDR(pa) == U32((pa.pg + KSEG0_PAGE) % PAGES32, pa.off)
KVADDR_TO_PADDR(kv) == U32((kv.pg - KSEG0_PAGE + PAGES32) % PAGES32, kv.off)

(***************************************************************************)
(* Frame allocator                                                         *)
(***************************************************************************)
\* array_getguy(buddylist, i): C indices start at 0
Guy(list, i) == list[i + 1]

\* a variant of Fits that does not look at the size of the entry
Fits_AnySize(curbe, npages) == curbe.inuse = 0

\* find_buddy's test that an entry can serve the request
Fits(curbe, npages) == curbe.inuse = 0 /\ curbe.pages >= npages

\* a variant of Better that also replaces the choice on equal size
Better_OrEqual(list, chosen, curbe) ==
    chosen = -1 \/ curbe.pages <= Guy(list, chosen).pages

\* find_buddy's test that a fitting entry replaces the one chosen so far
Better(list, chosen, curbe) ==
    chosen = -1 \/ curbe.pages < Guy(list, chosen).pages

\* the loop of find_buddy from index i on, with the index chosen so far
RECURSIVE find_buddy_from(_, _, _, _)
find_buddy_from(list, npages, i, chosen) ==
    IF i >= Len(list) THEN chosen
    ELSE LET curbe == Guy(list, i)
             take == Fits(curbe, npages) /\ Better(list, chosen, curbe)
         IN  find_buddy_from(list, npages, i + 1, IF take THEN i ELSE chosen)

\* find_buddy: index of the best fit, -1 when nothing fits
find_buddy(list, npages) == find_buddy_from(list, npages, 0, -1)

\* a variant of BuddyPaddr that adds the page count unscaled
BuddyPaddr_Unscaled(nextpaddr, nextsize) == Add32(nextpaddr, nextsize)

\* the second child of a split: its base address
BuddyPaddr(nextpaddr, nextsize) == Add32(nextpaddr, nextsize * PAGE_SIZE)

\* the while loop of calculate_buddy; kmalloc fails (and the kernel panics)
\* once the heap holds MaxBuddies entries
RECURSIVE split_loop(_, _, _, _, _, _)
split_loop(list, buddyi, nextpaddr, oldsize, nextsize, npages) ==
    IF nextsize >= npages
    THEN IF Len(list) >= MaxBuddies
         THEN [list |-> list, panic |-> TRUE]
         ELSE LET be == [paddr |-> nextpaddr, pages |-> nextsize, inuse |-> 0]
                  b2 == [paddr |-> BuddyPaddr(nextpaddr, nextsize),
                         pages |-> oldsize - nextsize, inuse |-> 0]
                  l2 == Append([list EXCEPT ![buddyi + 1] = be], b2)
              IN  split_loop(l2, buddyi, nextpaddr, nextsize, nextsize \div 2,
                             npages)
    ELSE [list |-> list, panic |-> FALSE]

\* a variant of MarkInUse that leaves the entry free
MarkInUse_Forgotten(list, buddyi) == list

\* be->inuse = 1 on the entry in slot buddyi
MarkInUse(list, buddyi) == [list EXCEPT ![buddyi + 1].inuse = 1]

\* calculate_buddy(npages) on the list: the new list, the address returned,
\* the slot chosen, and whether the kernel panicked instead of returning.
\* array_getguy asserts its index is in range, so find_buddy's -1 panics.
calculate_buddy(list, npages) ==
    LET buddyi == find_buddy(list, npages)
    IN  IF buddyi = -1
        THEN [list |-> list, addr |-> Zero32, buddyi |-> buddyi, panic |-> TRUE]
        ELSE LET be == Guy(list, buddyi)
                 r  == split_loop(list, buddyi, be.paddr, be.pages,
                                  be.pages \div 2, npages)
             IN  IF r.panic
                 THEN [list |-> r.list, addr |-> Zero32, buddyi |-> buddyi,
                       panic |-> TRUE]
                 ELSE [list |-> MarkInUse(r.list, buddyi),
                       addr |-> Guy(r.list, buddyi).paddr,
                       buddyi |-> buddyi, panic |-> FALSE]

\* the loop of freeppage from index i on
RECURSIVE freeppage_from(_, _, _)
freeppage_from(list, addr, i) ==
    IF i >= Len(list) THEN list
    ELSE IF Guy(list, i).paddr = addr
         THEN [list EXCEPT ![i + 1].inuse = 0]
         ELSE freeppage_from(list, addr, i + 1)

\* a variant of freeppage that merges the freed block with a free block
\* that starts where it ends
freeppage_Coalescing(list, addr) ==
    LET l1 == freeppage_from(list, addr, 0)
        I == {i \in 1..Len(l1) : l1[i].paddr = addr /\ l1[i].inuse = 0}
        i == CHOOSE x \in I : TRUE
        J == {j \in 1..Len(l1) :
                 /\ l1[j].inuse = 0
                 /\ l1[j].paddr = Add32(addr, l1[i].pages * PAGE_SIZE)}
        j == CHOOSE x \in J : TRUE
        merged == [l1 EXCEPT ![i].pages = l1[i].pages + l1[j].pages]
    IN  IF I = {} THEN l1
        ELSE IF J = {} \/ i = j THEN l1
        ELSE [k \in 1..(Len(l1) - 1) |->
                 IF k < j THEN merged[k] ELSE merged[k + 1]]

\* a variant of freeppage that frees the block whose range holds addr
freeppage_Containing(list, addr) ==
    [i \in 1..Len(list) |->
        IF /\ Ge32(addr, list[i].paddr)
           /\ Lt32(addr, Add32(list[i].paddr, list[i].pages * PAGE_SIZE))
        THEN [list[i] EXCEPT !.inuse = 0]
        ELSE list[i]]

\* freeppage(addr)
freeppage(list, addr) == freeppage_from(list, addr, 0)

(***************************************************************************)
(* Operations                                                              *)
(***************************************************************************)
\* what `last` records of one call: the operation, its integer argument, its
\* address argument, the descriptor it worked on, the integer it returned,
\* the physical and the returned address, the buddy slot chosen, and whether
\* it returned at all (FALSE: the kernel panicked inside it)
Called(op, n, addr, asid, ret, pa, raddr, buddyi, returned) ==
    [op |-> op, n |-> n, addr |-> addr, as |-> asid, ret |-> ret, pa |-> pa,
     raddr |-> raddr, buddyi |-> buddyi, returned |-> returned]

\* as_create's zero-initialised descriptor
EmptyAS ==
    [as_vbase1 |-> Zero32, as_pbase1 |-> Zero32, as_npages1 |-> 0,
     as_vbase2 |-> Zero32, as_pbase2 |-> Zero32, as_npages2 |-> 0,
     as_stackvbase |-> Zero32, as_stackpbase |-> Zero32]

\* TLBHI_INVALID(i), TLBLO_INVALID()
TLBHI_INVALID(i) == U32(KSEG0_PAGE + i, 0)
TLBLO_INVALID == Zero32

\* first free physical address reported by the memory probe
RamLo == U32(512, 0)

\* a thread that is inside no call, and a thread inside the call op on the
\* descriptor a (as_copy: old), with the descriptor new it made (as_copy),
\* about to run step number step of that call; n and addr keep the
\* arguments of a vm_fault call, addr the address a getppages call has
\* returned to as_prepare_load
Idle == [op |-> "idle", as |-> 0, new |-> 0, step |-> 0, n |-> 0,
         addr |-> [pg |-> 0, off |-> 0]]
At(op, a, new, step) ==
    [op |-> op, as |-> a, new |-> new, step |-> step, n |-> 0,
     addr |-> [pg |-> 0, off |-> 0]]

\* the state before vm_bootstrap, with nPages pages of RAM left by the boot
InitWith(nPages) ==
    /\ ram = [lo |-> RamLo, hi |-> Add32(RamLo, nPages * PAGE_SIZE)]
    /\ firstpaddr = RamLo
    /\ vm_initialized = 0
    /\ randdev = 0
    /\ buddylist = <<>>
    /\ spaces = [a \in 1..MaxAS |-> EmptyAS]
    /\ live = {}
    /\ curas = 0
    /\ tlb = [i \in 0..(NUM_TLB - 1) |->
                 [ehi |-> TLBHI_INVALID(i), elo |-> TLBLO_INVALID]]
    /\ curspl = 0
    /\ panicked = FALSE
    /\ nfaults = 0
    /\ ndefine = [a \in 1..MaxAS |-> 0]
    /\ mem = [p \in RamLo.pg..(RamLo.pg + nPages - 1) |-> 0]
    /\ listspl = -1
    /\ pc = [t \in Threads |-> Idle]
    /\ last = Called("boot", 0, Zero32, 0, 0, Zero32, Zero32, -1, TRUE)

\* buddylist != NULL: array_create has run.  vm_bootstrap is in the window
\* of vfs_open, or has finished.
ListCreated ==
    vm_initialized = 1 \/ \E t \in Threads : pc[t].op = "vm_bootstrap"

\* what a read through the descriptor pointer a can see: the descriptor, or,
\* when it has been freed, either the bytes it still holds or the zeroes of
\* the allocator that reused them
Deref(a) == IF a \in live THEN {spaces[a]} ELSE {spaces[a], EmptyAS}

\* vm_bootstrap() up to vfs_open, which blocks: array_create, kmalloc of the
\* first entry and ram_getsize
vm_bootstrap(t) ==
    /\ ~panicked
    /\ pc[t] = Idle
    /\ ~ListCreated
    /\ ram' = [ram EXCEPT !.lo = firstpaddr]
    /\ pc' = [pc EXCEPT ![t] = At("vm_bootstrap", 0, 0, 1)]
    /\ last' = Called("vm_bootstrap:vfs_open", 0, Zero32, 0, 0, Zero32, Zero32,
                      -1, TRUE)
    /\ listspl' = curspl
    /\ UNCHANGED <<firstpaddr, vm_initialized, randdev, buddylist, spaces,
                   live, curas, tlb, curspl, panicked, nfaults, ndefine, mem>>

\* vm_bootstrap() after vfs_open has returned, having stored the device in
\* randdev (opened = 1) or having failed and left randdev NULL (opened = 0);
\* the result of vfs_open is not looked at: one free block covering
\* (hi - lo) / PAGE_SIZE pages is added and vm_initialized is set
vm_bootstrap_resume(t, opened) ==
    /\ ~panicked
    /\ pc[t].op = "vm_bootstrap"
    /\ randdev' = opened
    /\ LET npages == Sub32(ram.hi, ram.lo).pg
       IN  buddylist' = Append(buddylist,
                               [paddr |-> ram.lo, pages |-> npages, inuse |-> 0])
    /\ vm_initialized' = 1
    /\ pc' = [pc EXCEPT ![t] = Idle]
    /\ last' = Called("vm_bootstrap", 0, Zero32, 0, 0, Zero32, Zero32, -1, TRUE)
    /\ listspl' = curspl
    /\ UNCHANGED <<ram, firstpaddr, spaces, live, curas, tlb, curspl, panicked,
                   nfaults, ndefine, mem>>

\* ram_stealmem(npages): the frames from firstpaddr on, handed out once each,
\* and 0 when fewer than npages are left.  After ram_getsize has reported
\* the free range the stealer either goes on or hands out nothing more.
ram_stealmem(npages) ==
    LET size == npages * PAGE_SIZE
        bump == IF Lin(firstpaddr) + size > Lin(ram.hi)
                THEN [addr |-> Zero32, next |-> firstpaddr]
                ELSE [addr |-> firstpaddr, next |-> Add32(firstpaddr, size)]
    IN  IF ListCreated
        THEN {bump, [addr |-> Zero32, next |-> firstpaddr]}
        ELSE {bump}

\* getppages(npages), between splhigh() and splx(spl): the outcomes it can
\* have.  list and next are the buddy list and the stealer's next frame
\* afterwards, listed tells that the buddy list was used.
getppages(npages) ==
    IF vm_initialized # 0
    THEN {[list |-> r.list, addr |-> r.addr, buddyi |-> r.buddyi,
           panic |-> r.panic, next |-> firstpaddr, listed |-> TRUE] :
             r \in {calculate_buddy(buddylist, npages)}}
    ELSE {[list |-> buddylist, addr |-> s.addr, buddyi |-> -1,
           panic |-> FALSE, next |-> s.next, listed |-> FALSE] :
             s \in ram_stealmem(npages)}

\* alloc_kpages(npages) -> getppages(npages); a panic inside calculate_buddy
\* leaves the interrupt level raised
alloc_kpages(npages) ==
    /\ ~panicked
    /\ \E r \in getppages(npages) :
           /\ buddylist' = r.list
           /\ firstpaddr' = r.next
           /\ panicked' = r.panic
           /\ curspl' = IF r.panic THEN SPL_HIGH ELSE curspl
           /\ last' = Called("alloc_kpages", npages, Zero32, 0, 0, r.addr,
                             IF r.addr = Zero32 THEN Zero32
                             ELSE PADDR_TO_KVADDR(r.addr),
                             r.buddyi, ~r.panic)
           /\ listspl' = IF r.listed THEN SPL_HIGH ELSE -1
    /\ UNCHANGED <<mem, ram, vm_initialized, randdev, spaces, live, curas, tlb,
                   nfaults, ndefine, pc>>

\* free_kpages(addr) -> freeppage(KVADDR_TO_PADDR(addr)); before array_create
\* the list pointer is NULL and reading it is fatal
free_kpages(addr) ==
    /\ ~panicked
    /\ buddylist' = IF ListCreated
                    THEN freeppage(buddylist, KVADDR_TO_PADDR(addr))
                    ELSE buddylist
    /\ panicked' = ~ListCreated
    /\ last' = Called("free_kpages", 0, addr, 0, 0, KVADDR_TO_PADDR(addr),
                      Zero32, -1, ListCreated)
    /\ listspl' = curspl
    /\ UNCHANGED <<mem, ram, firstpaddr, vm_initialized, randdev, spaces, live,
                   curas, tlb, curspl, nfaults, ndefine, pc>>

\* buddylist_printstats(): reads every entry of the list at the caller's
\* interrupt level.  `last` keeps the number of entries printed in n.
buddylist_printstats ==
    /\ ~panicked
    /\ panicked' = ~ListCreated
    /\ last' = Called("buddylist_printstats", Len(buddylist), Zero32, 0, 0,
                      Zero32, Zero32, -1, ListCreated)
    /\ listspl' = curspl
    /\ UNCHANGED <<mem, ram, firstpaddr, vm_initialized, randdev, buddylist,
                   spaces, live, curas, tlb, curspl, nfaults, ndefine, pc>>

(***************************************************************************)
(* Address spaces                                                          *)
(***************************************************************************)
\* as_create(): kmalloc a descriptor (the lowest free id) and zero it; NULL
\* (id 0) when kmalloc fails
as_create ==
    /\ ~panicked
    /\ LET free == (1..MaxAS) \ live
           a == IF free = {} THEN 0
                ELSE CHOOSE x \in free : \A y \in free : x <= y
       IN  /\ live' = IF a = 0 THEN live ELSE live \cup {a}
           /\ spaces' = IF a = 0 THEN spaces ELSE [spaces EXCEPT ![a] = EmptyAS]
           /\ ndefine' = IF a = 0 THEN ndefine ELSE [ndefine EXCEPT ![a] = 0]
           /\ last' = Called("as_create", 0, Zero32, a, 0, Zero32, Zero32, -1,
                             TRUE)
    /\ listspl' = -1
    /\ UNCHANGED <<mem, ram, firstpaddr, vm_initialized, randdev, buddylist,
                   curas, tlb, curspl, panicked, nfaults, pc>>

\* the page-aligned base as_define_region computes from vaddr
RegionBase(vaddr) == PageFrame(vaddr)

\* the page count as_define_region computes from vaddr and sz
RegionPages(vaddr, sz) ==
    LET sz1 == Add32(sz, PageOffset(vaddr))
        sz2 == PageFrame(Add32(sz1, PAGE_SIZE - 1))
    IN  sz2.pg

\* a variant of define_region that never reports too many regions: a call
\* that finds region 1 recorded records region 2 again
define_region_NoLimit(as, vaddr, sz) ==
    IF as.as_vbase1 = Zero32
    THEN [as |-> [as EXCEPT !.as_vbase1 = RegionBase(vaddr),
                            !.as_npages1 = RegionPages(vaddr, sz)],
          ret |-> 0]
    ELSE [as |-> [as EXCEPT !.as_vbase2 = RegionBase(vaddr),
                            !.as_npages2 = RegionPages(vaddr, sz)],
          ret |-> 0]

\* as_define_region on a descriptor: the new descriptor and the result
define_region(as, vaddr, sz) ==
    IF as.as_vbase1 = Zero32
    THEN [as |-> [as EXCEPT !.as_vbase1 = RegionBase(vaddr),
                            !.as_npages1 = RegionPages(vaddr, sz)],
          ret |-> 0]
    ELSE IF as.as_vbase2 = Zero32
    THEN [as |-> [as EXCEPT !.as_vbase2 = RegionBase(vaddr),
                            !.as_npages2 = RegionPages(vaddr, sz)],
          ret |-> 0]
    ELSE [as |-> as, ret |-> EUNIMP]

\* as_define_region(as, vaddr, sz, r, w, x); the flags are ignored
as_define_region(a, vaddr, sz) ==
    /\ ~panicked
    /\ a \in live
    /\ ndefine[a] < MaxDefine
    /\ LET r == define_region(spaces[a], vaddr, sz)
       IN  /\ spaces' = [spaces EXCEPT ![a] = r.as]
           /\ ndefine' = [ndefine EXCEPT ![a] = ndefine[a] + 1]
           /\ last' = Called("as_define_region", RegionPages(vaddr, sz), vaddr,
                             a, r.ret, Zero32, Zero32, -1, TRUE)
    /\ listspl' = -1
    /\ UNCHANGED <<mem, ram, firstpaddr, vm_initialized, randdev, buddylist,
                   live, curas, tlb, curspl, panicked, nfaults, pc>>

\* the asserts at the head of as_prepare_load
PrepareAsserts(as) ==
    /\ as.as_pbase1 = Zero32
    /\ as.as_pbase2 = Zero32
    /\ as.as_stackpbase = Zero32

\* the page count as_prepare_load passes to its k-th getppages call
PrepareCount(as, k) ==
    IF k = 1 THEN as.as_npages1
    ELSE IF k = 2 THEN as.as_npages2
    ELSE DUMBVM_STACKPAGES

\* the field as_prepare_load stores the result of its k-th getppages call in
SetBase(as, k, addr) ==
    IF k = 1 THEN [as EXCEPT !.as_pbase1 = addr]
    ELSE IF k = 2 THEN [as EXCEPT !.as_pbase2 = addr]
    ELSE [as EXCEPT !.as_stackpbase = addr]

\* the descriptors after thread t has stored what its getppages call number
\* k - 1 returned, in the descriptor a it holds a pointer to
StoredBase(t, a, k) ==
    IF k = 1 THEN spaces
    ELSE [spaces EXCEPT ![a] = SetBase(@, k - 1, pc[t].addr)]

\* step k of as_prepare_load(a) by thread t.  For k > 1 it starts where
\* getppages call number k - 1 has returned: the result is stored in the
\* descriptor and, when it is 0, the call returns ENOMEM; after the third
\* store the call returns 0.  Otherwise the step goes on to getppages call
\* number k and ends when that call has restored the interrupt level; a
\* panic inside it leaves the level raised.  `last` keeps in n the number
\* of getppages calls made, in pa the address obtained and in buddyi the
\* buddy slot.
prepare_step(t, a, k) ==
    IF (k > 1 /\ pc[t].addr = Zero32) \/ k = 4
    THEN /\ spaces' = StoredBase(t, a, k)
         /\ pc' = [pc EXCEPT ![t] = Idle]
         /\ last' = Called("as_prepare_load", k - 1, Zero32, a,
                           IF pc[t].addr = Zero32 THEN ENOMEM ELSE 0,
                           pc[t].addr, Zero32, -1, TRUE)
         /\ listspl' = -1
         /\ UNCHANGED <<buddylist, firstpaddr, panicked, curspl>>
    ELSE \E as \in Deref(a) : \E r \in getppages(PrepareCount(as, k)) :
         /\ buddylist' = r.list
         /\ firstpaddr' = r.next
         /\ panicked' = r.panic
         /\ curspl' = IF r.panic THEN SPL_HIGH ELSE curspl
         /\ listspl' = IF r.listed THEN SPL_HIGH ELSE -1
         /\ spaces' = StoredBase(t, a, k)
         /\ IF r.panic
            THEN /\ pc' = [pc EXCEPT ![t] = Idle]
                 /\ last' = Called("as_prepare_load", k, Zero32, a, 0,
                                   r.addr, Zero32, r.buddyi, FALSE)
            ELSE /\ pc' = [pc EXCEPT ![t] =
                              [At("as_prepare_load", a, 0, k + 1)
                                  EXCEPT !.addr = r.addr]]
                 /\ last' = Called("as_prepare_load:getppages", k, Zero32, a,
                                   0, r.addr, Zero32, r.buddyi, TRUE)

\* as_prepare_load(as): the asserts and the first getppages call
as_prepare_load(t, a) ==
    /\ ~panicked
    /\ pc[t] = Idle
    /\ a \in live
    /\ IF PrepareAsserts(spaces[a])
       THEN prepare_step(t, a, 1)
       ELSE /\ panicked' = TRUE
            /\ last' = Called("as_prepare_load", 0, Zero32, a, 0, Zero32,
                              Zero32, -1, FALSE)
            /\ listspl' = -1
            /\ UNCHANGED <<buddylist, firstpaddr, spaces, curspl, pc>>
    /\ UNCHANGED <<mem, ram, vm_initialized, randdev, live, curas, tlb,
                   nfaults, ndefine>>

\* as_prepare_load(as) from the return of a getppages call on: the store of
\* its result and the next getppages call, or the return
as_prepare_load_resume(t) ==
    /\ ~panicked
    /\ pc[t].op = "as_prepare_load"
    /\ prepare_step(t, pc[t].as, pc[t].step)
    /\ UNCHANGED <<mem, ram, vm_initialized, randdev, live, curas, tlb,
                   nfaults, ndefine>>

\* rand %= 0x7fa40000 and newstack = 0x005c0000 + rand, in pages: both
\* constants are multiples of PAGE_SIZE
STACK_RAND_PAGES == 522816
STACK_MIN_PAGE == 1472

\* a variant of StackTop that does not reduce the random word
StackTop_NoModulo(rand) ==
    PageFrame(AddW(U32(STACK_MIN_PAGE, 0), rand))

\* the stack top as_define_stack computes from the 4 random bytes
StackTop(rand) ==
    LET r == U32(rand.pg % STACK_RAND_PAGES, rand.off)
        newstack == AddW(U32(STACK_MIN_PAGE, 0), r)
    IN  PageFrame(newstack)

\* as_define_stack(as, &stackptr) up to VOP_READ(randdev), which blocks: the
\* assert on as_stackpbase, and the call through randdev, which is a NULL
\* pointer until vfs_open has stored the device and for good when it failed
as_define_stack(t, a) ==
    /\ ~panicked
    /\ pc[t] = Idle
    /\ a \in live
    /\ IF spaces[a].as_stackpbase = Zero32 \/ randdev = 0
       THEN /\ panicked' = TRUE
            /\ pc' = pc
            /\ last' = Called("as_define_stack", 0, Zero32, a, 0, Zero32,
                              Zero32, -1, FALSE)
       ELSE /\ panicked' = FALSE
            /\ pc' = [pc EXCEPT ![t] = At("as_define_stack", a, 0, 1)]
            /\ last' = Called("as_define_stack:VOP_READ", 0, Zero32, a, 0,
                              Zero32, Zero32, -1, TRUE)
    /\ listspl' = -1
    /\ UNCHANGED <<mem, ram, firstpaddr, vm_initialized, randdev, buddylist,
                   spaces, live, curas, tlb, curspl, nfaults, ndefine>>

\* as_define_stack(as, &stackptr) after VOP_READ has returned the word rand:
\* the stack top is stored through the descriptor pointer and *stackptr
as_define_stack_resume(t, rand) ==
    /\ ~panicked
    /\ pc[t].op = "as_define_stack"
    /\ spaces' = [spaces EXCEPT ![pc[t].as].as_stackvbase = StackTop(rand)]
    /\ pc' = [pc EXCEPT ![t] = Idle]
    /\ last' = Called("as_define_stack", 0, rand, pc[t].as, 0, Zero32,
                      StackTop(rand), -1, TRUE)
    /\ listspl' = -1
    /\ UNCHANGED <<mem, ram, firstpaddr, vm_initialized, randdev, buddylist,
                   live, curas, tlb, curspl, panicked, nfaults, ndefine>>

\* a variant of DestroyBase that does not free the stack
DestroyBase_LeakStack(as, k) ==
    IF k = 1 THEN as.as_pbase1
    ELSE IF k = 2 THEN as.as_pbase2
    ELSE Zero32

\* the address as_destroy passes to its k-th freeppage call
DestroyBase(as, k) ==
    IF k = 1 THEN as.as_pbase1
    ELSE IF k = 2 THEN as.as_pbase2
    ELSE as.as_stackpbase

\* the k-th freeppage call of as_destroy(a) made by thread t, and after the
\* third the kfree of the descriptor.  No interrupt level is raised.  The
\* thread whose t_vmspace is a keeps pointing to it.  `last` keeps the
\* address passed to freeppage in pa; before array_create the list pointer
\* is NULL and reading it is fatal.
destroy_step(t, a, k) ==
    IF ~ListCreated
    THEN /\ panicked' = TRUE
         /\ last' = Called("as_destroy", k, Zero32, a, 0, Zero32, Zero32, -1,
                           FALSE)
         /\ UNCHANGED <<buddylist, live, ndefine, pc>>
    ELSE \E as \in Deref(a) :
         /\ panicked' = FALSE
         /\ buddylist' = freeppage(buddylist, DestroyBase(as, k))
         /\ IF k = 3
            THEN /\ live' = live \ {a}
                 /\ ndefine' = [ndefine EXCEPT ![a] = 0]
                 /\ pc' = [pc EXCEPT ![t] = Idle]
                 /\ last' = Called("as_destroy", k, Zero32, a, 0,
                                   DestroyBase(as, k), Zero32, -1, TRUE)
            ELSE /\ pc' = [pc EXCEPT ![t] = At("as_destroy", a, 0, k + 1)]
                 /\ last' = Called("as_destroy:freeppage", k, Zero32, a, 0,
                                   DestroyBase(as, k), Zero32, -1, TRUE)
                 /\ UNCHANGED <<live, ndefine>>

\* as_destroy(as): the first freeppage call
as_destroy(t, a) ==
    /\ ~panicked
    /\ pc[t] = Idle
    /\ a \in live
    /\ destroy_step(t, a, 1)
    /\ listspl' = curspl
    /\ UNCHANGED <<mem, ram, firstpaddr, vm_initialized, randdev, spaces,
                   curas, tlb, curspl, nfaults>>

\* as_destroy(as): the second and the third freeppage call and the kfree
as_destroy_resume(t) ==
    /\ ~panicked
    /\ pc[t].op = "as_destroy"
    /\ destroy_step(t, pc[t].as, pc[t].step)
    /\ listspl' = curspl
    /\ UNCHANGED <<mem, ram, firstpaddr, vm_initialized, randdev, spaces,
                   curas, tlb, curspl, nfaults>>

\* the content of physical page pg: RAM as recorded in m, and a fixed value
\* for the pages below RAM, which hold the kernel image
Content(m, pg) == IF pg \in DOMAIN m THEN m[pg] ELSE -1

\* a variant of MemMove that copies the first source page to every page
MemMove_FirstPageOnly(m, dst, src, n) ==
    [p \in DOMAIN m |->
        IF dst.pg <= p /\ p < dst.pg + n THEN Content(m, src.pg) ELSE m[p]]

\* memmove(PADDR_TO_KVADDR(dst), PADDR_TO_KVADDR(src), n * PAGE_SIZE) on
\* page-aligned physical addresses
MemMove(m, dst, src, n) ==
    [p \in DOMAIN m |->
        IF dst.pg <= p /\ p < dst.pg + n
        THEN Content(m, src.pg + (p - dst.pg))
        ELSE m[p]]

\* the descriptor as_copy builds before as_prepare_load: old's layout
CopyLayout(old) ==
    [EmptyAS EXCEPT !.as_vbase1 = old.as_vbase1,
                    !.as_npages1 = old.as_npages1,
                    !.as_vbase2 = old.as_vbase2,
                    !.as_npages2 = old.as_npages2,
                    !.as_stackvbase = old.as_stackvbase]

\* as_copy(old, &ret): as_create and the copy of old's layout into the new
\* descriptor, which only this call refers to until it returns.  `last`
\* keeps old's id in n, the id handed back through ret in as (0: none) and
\* the result in ret.
as_copy(t, o) ==
    /\ ~panicked
    /\ pc[t] = Idle
    /\ o \in live
    /\ LET free == (1..MaxAS) \ live
           a == IF free = {} THEN 0
                ELSE CHOOSE x \in free : \A y \in free : x <= y
       IN  IF a = 0
           THEN /\ last' = Called("as_copy", o, Zero32, 0, ENOMEM, Zero32,
                                  Zero32, -1, TRUE)
                /\ UNCHANGED <<spaces, live, ndefine, pc>>
           ELSE /\ spaces' = [spaces EXCEPT ![a] = CopyLayout(spaces[o])]
                /\ live' = live \cup {a}
                /\ ndefine' = [ndefine EXCEPT ![a] = 0]
                /\ pc' = [pc EXCEPT ![t] = At("as_copy", o, a, 1)]
                /\ last' = Called("as_copy:as_create", o, Zero32, 0, 0, Zero32,
                                  Zero32, -1, TRUE)
    /\ listspl' = -1
    /\ UNCHANGED <<mem, ram, firstpaddr, vm_initialized, randdev, buddylist,
                   curas, tlb, curspl, panicked, nfaults>>

\* as_copy: step k of as_prepare_load(new), as in prepare_step; when
\* as_prepare_load returns ENOMEM the call goes on to as_destroy(new), when
\* it returns 0 to the memmove calls
copy_prepare_step(t, o, a, k) ==
    IF k = 1 /\ ~PrepareAsserts(spaces[a])
    THEN /\ panicked' = TRUE
         /\ last' = Called("as_copy", o, Zero32, 0, 0, Zero32, Zero32, -1,
                           FALSE)
         /\ listspl' = -1
         /\ UNCHANGED <<buddylist, firstpaddr, spaces, live, ndefine, mem,
                        curspl, pc>>
    ELSE IF (k > 1 /\ pc[t].addr = Zero32) \/ k = 4
    THEN /\ spaces' = StoredBase(t, a, k)
         /\ pc' = [pc EXCEPT ![t] =
                      At("as_copy", o, a,
                         IF pc[t].addr = Zero32 THEN 8 ELSE 5)]
         /\ last' = Called("as_copy:as_prepare_load", o, Zero32, 0, 0,
                           pc[t].addr, Zero32, -1, TRUE)
         /\ listspl' = -1
         /\ UNCHANGED <<buddylist, firstpaddr, panicked, curspl, live,
                        ndefine, mem>>
    ELSE \E r \in getppages(PrepareCount(spaces[a], k)) :
         /\ buddylist' = r.list
         /\ firstpaddr' = r.next
         /\ panicked' = r.panic
         /\ curspl' = IF r.panic THEN SPL_HIGH ELSE curspl
         /\ listspl' = IF r.listed THEN SPL_HIGH ELSE -1
         /\ spaces' = StoredBase(t, a, k)
         /\ pc' = [pc EXCEPT ![t] =
                      IF r.panic THEN pc[t]
                      ELSE [At("as_copy", o, a, k + 1)
                               EXCEPT !.addr = r.addr]]
         /\ last' = Called(IF r.panic THEN "as_copy" ELSE "as_copy:getppages",
                           o, Zero32, 0, 0, r.addr, Zero32, r.buddyi, ~r.panic)
         /\ UNCHANGED <<live, ndefine, mem>>

\* as_copy: the j-th memmove, preceded by the asserts on the new bases and
\* followed after the third by *ret = new and return 0
copy_memmove_step(t, o, a, j) ==
    \E old \in Deref(o) :
        LET new == spaces[a]
            asserted == j = 1 /\ (\/ new.as_pbase1 = Zero32
                                  \/ new.as_pbase2 = Zero32
                                  \/ new.as_stackpbase = Zero32)
        IN  /\ panicked' = asserted
            /\ mem' = IF asserted THEN mem
                      ELSE MemMove(mem, DestroyBase(new, j),
                                   DestroyBase(old, j), PrepareCount(old, j))
            /\ pc' = [pc EXCEPT ![t] =
                         IF asserted THEN pc[t]
                         ELSE IF j = 3 THEN Idle
                         ELSE At("as_copy", o, a, j + 5)]
            /\ last' = IF asserted
                       THEN Called("as_copy", o, Zero32, 0, 0, Zero32, Zero32,
                                   -1, FALSE)
                       ELSE IF j = 3
                       THEN Called("as_copy", o, Zero32, a, 0, Zero32, Zero32,
                                   -1, TRUE)
                       ELSE Called("as_copy:memmove", o, Zero32, 0, 0, Zero32,
                                   Zero32, -1, TRUE)
            /\ listspl' = -1
            /\ UNCHANGED <<buddylist, firstpaddr, spaces, live, ndefine,
                           curspl>>

\* as_copy: the k-th freeppage call of as_destroy(new), followed after the
\* third by the kfree of new and return ENOMEM
copy_destroy_step(t, o, a, k) ==
    /\ panicked' = ~ListCreated
    /\ buddylist' = IF ListCreated
                    THEN freeppage(buddylist, DestroyBase(spaces[a], k))
                    ELSE buddylist
    /\ listspl' = curspl
    /\ IF ~ListCreated
       THEN /\ last' = Called("as_copy", o, Zero32, 0, 0, Zero32, Zero32, -1,
                              FALSE)
            /\ UNCHANGED <<live, ndefine, pc>>
       ELSE IF k = 3
       THEN /\ live' = live \ {a}
            /\ ndefine' = [ndefine EXCEPT ![a] = 0]
            /\ pc' = [pc EXCEPT ![t] = Idle]
            /\ last' = Called("as_copy", o, Zero32, 0, ENOMEM,
                              DestroyBase(spaces[a], k), Zero32, -1, TRUE)
       ELSE /\ pc' = [pc EXCEPT ![t] = At("as_copy", o, a, k + 8)]
            /\ last' = Called("as_copy:freeppage", o, Zero32, 0, 0,
                              DestroyBase(spaces[a], k), Zero32, -1, TRUE)
            /\ UNCHANGED <<live, ndefine>>
    /\ UNCHANGED <<firstpaddr, spaces, mem, curspl>>

\* as_copy(old, &ret) after as_create: steps 1 to 4 are the steps of
\* as_prepare_load(new), steps 5 to 7 the memmove calls, steps 8 to 10 the
\* freeppage calls of as_destroy(new)
as_copy_resume(t) ==
    /\ ~panicked
    /\ pc[t].op = "as_copy"
    /\ LET o == pc[t].as
           a == pc[t].new
           s == pc[t].step
       IN  IF s <= 4 THEN copy_prepare_step(t, o, a, s)
           ELSE IF s <= 7 THEN copy_memmove_step(t, o, a, s - 4)
           ELSE copy_destroy_step(t, o, a, s - 7)
    /\ UNCHANGED <<ram, vm_initialized, randdev, curas, tlb, nfaults>>

\* a store of the value v to the physical page pg of RAM, by the program
\* that owns the page
store(pg, v) ==
    /\ ~panicked
    /\ pg \in DOMAIN mem
    /\ mem' = [mem EXCEPT ![pg] = v]
    /\ last' = Called("store", v, U32(pg, 0), 0, 0, U32(pg, 0), Zero32, -1,
                      TRUE)
    /\ listspl' = -1
    /\ UNCHANGED <<ram, firstpaddr, vm_initialized, randdev, buddylist, spaces,
                   live, curas, tlb, curspl, panicked, nfaults, ndefine, pc>>

\* bit m (a power of two below PAGE_SIZE) of the word w is set
BitSet(w, m) == (w.off \div m) % 2 = 1
\* w | m
OrBit(w, m) == IF BitSet(w, m) THEN w ELSE U32(w.pg, w.off + m)

\* the slots of t whose low word is not marked valid
InvalidSlots(t) == {i \in 0..(NUM_TLB - 1) : ~BitSet(t[i].elo, TLBLO_VALID)}

\* a variant of FlushedTLB whose loop stops one slot early
FlushedTLB_SkipLast ==
    [i \in 0..(NUM_TLB - 1) |->
        IF i = NUM_TLB - 1 THEN tlb[i]
        ELSE [ehi |-> TLBHI_INVALID(i), elo |-> TLBLO_INVALID]]

\* the TLB after the loop of as_activate
FlushedTLB ==
    [i \in 0..(NUM_TLB - 1) |->
        [ehi |-> TLBHI_INVALID(i), elo |-> TLBLO_INVALID]]

\* as_activate(as): every slot invalidated between splhigh() and splx(spl).
\* `last` keeps in n the number of slots that were valid at entry.
as_activate(a) ==
    /\ ~panicked
    /\ tlb' = FlushedTLB
    /\ last' = Called("as_activate", NUM_TLB - Cardinality(InvalidSlots(tlb)),
                      Zero32, a, 0, Zero32, Zero32, -1, TRUE)
    /\ listspl' = -1
    /\ UNCHANGED <<mem, ram, firstpaddr, vm_initialized, randdev, buddylist,
                   spaces, live, curas, curspl, panicked, nfaults, ndefine,
                   pc>>

\* tlb_printstats(): reads every slot of the TLB.  `last` keeps in n the
\* number of slots that are valid.
tlb_printstats ==
    /\ ~panicked
    /\ last' = Called("tlb_printstats", NUM_TLB - Cardinality(InvalidSlots(tlb)),
                      Zero32, 0, 0, Zero32, Zero32, -1, TRUE)
    /\ listspl' = -1
    /\ UNCHANGED <<mem, ram, firstpaddr, vm_initialized, randdev, buddylist,
                   spaces, live, curas, tlb, curspl, panicked, nfaults,
                   ndefine, pc>>

\* the scheduler makes a thread with address space a (0: none) current and
\* activates its address space
thread_switch(a) ==
    /\ ~panicked
    /\ a \in live \cup {0}
    /\ curas' = a
    /\ tlb' = FlushedTLB
    /\ last' = Called("thread_switch", 0, Zero32, a, 0, Zero32, Zero32, -1,
                      TRUE)
    /\ listspl' = -1
    /\ UNCHANGED <<mem, ram, firstpaddr, vm_initialized, randdev, buddylist,
                   spaces, live, curspl, panicked, nfaults, ndefine, pc>>

(***************************************************************************)
(* Fault handler                                                           *)
(***************************************************************************)
\* the asserts of vm_fault on the address space
FaultAsserts(as) ==
    /\ as.as_vbase1 # Zero32
    /\ as.as_pbase1 # Zero32
    /\ as.as_npages1 # 0
    /\ as.as_vbase2 # Zero32
    /\ as.as_pbase2 # Zero32
    /\ as.as_npages2 # 0
    /\ as.as_stackpbase # Zero32
    /\ PageFrame(as.as_vbase1) = as.as_vbase1
    /\ PageFrame(as.as_pbase1) = as.as_pbase1
    /\ PageFrame(as.as_vbase2) = as.as_vbase2
    /\ PageFrame(as.as_pbase2) = as.as_pbase2
    /\ PageFrame(as.as_stackpbase) = as.as_stackpbase

\* the address resolution of vm_fault: the physical address for the
\* page-aligned fault address, or no mapping
Translate(as, faultaddress) ==
    LET vbase1 == as.as_vbase1
        vtop1 == AddW(vbase1, U32(as.as_npages1 % PAGES32, 0))
        vbase2 == as.as_vbase2
        vtop2 == AddW(vbase2, U32(as.as_npages2 % PAGES32, 0))
        stackbase == Sub32(as.as_stackvbase, U32(DUMBVM_STACKPAGES, 0))
        stacktop == as.as_stackvbase
    IN  IF Ge32(faultaddress, vbase1) /\ Lt32(faultaddress, vtop1)
        THEN [ok |-> TRUE,
              paddr |-> AddW(Sub32(faultaddress, vbase1), as.as_pbase1)]
        ELSE IF Ge32(faultaddress, vbase2) /\ Lt32(faultaddress, vtop2)
        THEN [ok |-> TRUE,
              paddr |-> AddW(Sub32(faultaddress, vbase2), as.as_pbase2)]
        ELSE IF Ge32(faultaddress, stackbase) /\ Lt32(faultaddress, stacktop)
        THEN [ok |-> TRUE,
              paddr |-> AddW(Sub32(faultaddress, stackbase), as.as_stackpbase)]
        ELSE [ok |-> FALSE, paddr |-> Zero32]

\* the slot the scan of vm_fault stops at: the first that is not valid, or
\* NUM_TLB when every slot is valid
FirstInvalid(t) ==
    IF InvalidSlots(t) = {} THEN NUM_TLB
    ELSE CHOOSE i \in InvalidSlots(t) : \A j \in InvalidSlots(t) : i <= j

\* the entry vm_fault writes
TlbEntry(faultaddress, paddr) ==
    [ehi |-> faultaddress,
     elo |-> OrBit(OrBit(paddr, TLBLO_DIRTY), TLBLO_VALID)]


\* vm_fault(faulttype, faultaddress) from splhigh() to the return or, for an
\* address in no range, to the splx(spl) before buddylist_printstats(): the
\* TLB afterwards, the result, the slot written (-1: none), the interrupt
\* level afterwards, whether the kernel panicked, and whether the call goes
\* on to print the buddy list
fault(t, as_or_null, as, spl, faulttype, faultaddress) ==
    LET fa == PageFrame(faultaddress)
        none == [tlb |-> t, ret |-> 0, slot |-> -1, spl |-> SPL_HIGH,
                 panic |-> TRUE, printed |-> FALSE]
    IN  IF faulttype = VM_FAULT_READONLY THEN none
        ELSE IF faulttype \notin {VM_FAULT_READ, VM_FAULT_WRITE}
        THEN [none EXCEPT !.ret = EINVAL, !.spl = spl, !.panic = FALSE]
        ELSE IF as_or_null = 0
        THEN [none EXCEPT !.ret = EFAULT, !.panic = FALSE]
        ELSE IF ~FaultAsserts(as) THEN none
        ELSE LET tr == Translate(as, fa)
                 i == FirstInvalid(t)
             IN  IF ~tr.ok
                 THEN [none EXCEPT !.spl = spl, !.panic = FALSE,
                                   !.printed = TRUE]
                 ELSE IF PageFrame(tr.paddr) # tr.paddr THEN none
                 ELSE IF i = NUM_TLB
                 THEN [none EXCEPT !.ret = EFAULT, !.spl = spl,
                                   !.panic = FALSE]
                 ELSE [tlb |-> [t EXCEPT ![i] = TlbEntry(fa, tr.paddr)],
                       ret |-> 0, slot |-> i, spl |-> spl, panic |-> FALSE,
                       printed |-> FALSE]

\* vm_fault on curthread->t_vmspace, which as_destroy does not reset: the
\* section under splhigh(); for an address in no range the thread stands
\* after splx(spl), before buddylist_printstats()
vm_fault(t, faulttype, faultaddress) ==
    /\ ~panicked
    /\ pc[t] = Idle
    /\ \E as \in (IF curas = 0 THEN {EmptyAS} ELSE Deref(curas)) :
       \E r \in {fault(tlb, curas, as, curspl, faulttype, faultaddress)} :
           /\ tlb' = r.tlb
           /\ curspl' = r.spl
           /\ panicked' = r.panic
           /\ last' = Called(IF r.printed THEN "vm_fault:splx" ELSE "vm_fault",
                             faulttype, faultaddress, curas, r.ret,
                             Zero32, Zero32, r.slot, ~r.panic)
           /\ pc' = IF r.printed
                    THEN [pc EXCEPT ![t] = [op |-> "vm_fault", as |-> curas,
                                            new |-> 0, step |-> 1,
                                            n |-> faulttype,
                                            addr |-> faultaddress]]
                    ELSE pc
    /\ listspl' = -1
    /\ UNCHANGED <<mem, ram, firstpaddr, vm_initialized, randdev, buddylist,
                   spaces, live, curas, ndefine>>

\* vm_fault for an address in no range, after splx(spl): it prints the buddy
\* list at the restored level (a NULL list pointer ends the kernel) and
\* returns EFAULT
vm_fault_resume(t) ==
    /\ ~panicked
    /\ pc[t].op = "vm_fault"
    /\ panicked' = ~ListCreated
    /\ last' = Called("vm_fault", pc[t].n, pc[t].addr, pc[t].as,
                      IF ListCreated THEN EFAULT ELSE 0, Zero32, Zero32, -1,
                      ListCreated)
    /\ pc' = [pc EXCEPT ![t] = Idle]
    /\ listspl' = curspl
    /\ UNCHANGED <<mem, ram, firstpaddr, vm_initialized, randdev, buddylist,
                   spaces, live, curas, tlb, curspl, nfaults, ndefine>>

(***************************************************************************)
(* The calling threads.  A call is started by the lowest thread that is in *)
(* no call (threads differ in nothing else), and on a descriptor that no   *)
(* call in progress works on: a descriptor belongs to one process, whose   *)
(* single kernel thread makes the calls on it one after the other.         *)
(***************************************************************************)
Free(t) == pc[t] = Idle /\ \A u \in Threads : u < t => pc[u] # Idle
InFlight(a) ==
    \E t \in Threads : pc[t].op # "idle" /\ (pc[t].as = a \/ pc[t].new = a)
Owned == {a \in live : ~InFlight(a)}
Booted == vm_initialized = 1

(***************************************************************************)
(* The allocator on its own: every RAM size up to MaxRamPages, requests of *)
(* 0..MaxReq pages before, during and after vm_bootstrap, and frees of     *)
(* every page address of RAM (block bases, addresses strictly inside       *)
(* blocks, the end of RAM), of physical address 0 and of an unaligned      *)
(* address.                                                                *)
(***************************************************************************)
RamPages == Sub32(ram.hi, ram.lo).pg

FreeInputs ==
    {PADDR_TO_KVADDR(Add32(ram.lo, k * PAGE_SIZE)) : k \in 0..RamPages}
    \cup {PADDR_TO_KVADDR(Zero32), PADDR_TO_KVADDR(Add32(ram.lo, 1))}

InitAlloc == \E nPages \in 1..MaxRamPages : InitWith(nPages)

Bootstrap == \E t \in Threads : Free(t) /\ vm_bootstrap(t)

BootstrapResume ==
    \E t \in Threads, opened \in {0, 1} : vm_bootstrap_resume(t, opened)

AllocKpages == \E npages \in 0..MaxReq : alloc_kpages(npages)

FreeKpages == \E addr \in FreeInputs : free_kpages(addr)

NextAlloc ==
    \/ Bootstrap
    \/ BootstrapResume
    \/ AllocKpages
    \/ FreeKpages
    \/ buddylist_printstats

SpecAlloc == InitAlloc /\ [][NextAlloc]_vars

(***************************************************************************)
(* Properties of the frame allocator                                       *)
(***************************************************************************)
BlockStart(b) == Lin(b.paddr)
BlockEnd(b) == Lin(b.paddr) + b.pages * PAGE_SIZE
Blocks == 1..Len(buddylist)
\* two byte ranges [s1, e1) and [s2, e2) share a byte
Overlap(s1, e1, s2, e2) == s1 < e1 /\ s2 < e2 /\ s1 < e2 /\ s2 < e1

\* C1: after bootstrap, through any sequence of allocations and frees, the
\* blocks of the buddy list are page-aligned, pairwise non-overlapping, lie
\* inside [lo, hi) and together cover every page of [lo, hi).
C1_BuddyPartition ==
    vm_initialized = 1 =>
        /\ \A i \in Blocks : buddylist[i].paddr.off = 0
        /\ \A i \in Blocks :
               /\ Lin(ram.lo) <= BlockStart(buddylist[i])
               /\ BlockEnd(buddylist[i]) <= Lin(ram.hi)
        /\ \A i, j \in Blocks :
               i # j => ~Overlap(BlockStart(buddylist[i]), BlockEnd(buddylist[i]),
                                 BlockStart(buddylist[j]), BlockEnd(buddylist[j]))
        /\ \A p \in ram.lo.pg..(ram.hi.pg - 1) :
               \E i \in Blocks :
                   /\ BlockStart(buddylist[i]) <= p * PAGE_SIZE
                   /\ (p + 1) * PAGE_SIZE <= BlockEnd(buddylist[i])

\* a free has just run on a list that was split at least twice, from an
\* odd-sized RAM, with a block still in use
C1_Witness ==
    /\ last.op = "free_kpages"
    /\ Len(buddylist) >= 3
    /\ RamPages % 2 = 1
    /\ \E i \in Blocks : buddylist[i].inuse = 1
    /\ \E i \in Blocks : buddylist[i].inuse = 0 /\ buddylist[i].paddr = last.pa

\* C2: after bootstrap, an allocation of n >= 1 pages that returns a nonzero
\* address returns the page-aligned base of a block of the list that has at
\* least n pages and is marked in use.
C2_AllocReturnsInUseBlock ==
    (vm_initialized = 1 /\ last.op = "alloc_kpages" /\ last.returned
        /\ last.n >= 1 /\ last.pa # Zero32) =>
        /\ last.pa.off = 0
        /\ last.raddr = PADDR_TO_KVADDR(last.pa)
        /\ \E i \in Blocks :
               /\ buddylist[i].paddr = last.pa
               /\ buddylist[i].pages >= last.n
               /\ buddylist[i].inuse = 1

\* after bootstrap an allocation of 2 pages returned a block produced by
\* splitting
C2_Witness ==
    /\ vm_initialized = 1
    /\ last.op = "alloc_kpages" /\ last.returned /\ last.n = 2
    /\ last.pa # Zero32
    /\ Len(buddylist) >= 2
    /\ \E i \in Blocks : buddylist[i].paddr = last.pa /\ buddylist[i].pages = 3

\* no block is both free and large enough for n pages
NoFit(list, n) == ~\E i \in 1..Len(list) : list[i].inuse = 0 /\ list[i].pages >= n

\* C3: after bootstrap, an allocation for which no free block is large
\* enough returns 0 and leaves the buddy list unchanged, without a panic.
C3_OomReturnsZero ==
    [][(vm_initialized = 1 /\ last'.op = "alloc_kpages"
           /\ NoFit(buddylist, last'.n)) =>
           /\ last'.returned
           /\ ~panicked'
           /\ last'.pa = Zero32
           /\ last'.raddr = Zero32
           /\ buddylist' = buddylist]_vars

\* C4: the block selected from the buddy list to serve a request is free,
\* has at least n pages, has the fewest pages among the free blocks with at
\* least n pages, and has the lowest index among those of that size; the
\* address returned is the base of that block, which is then marked in use
\* in the same slot.
C4_BestFitFirstOccurrence ==
    [][(vm_initialized = 1 /\ last'.op = "alloc_kpages" /\ last'.returned) =>
           LET i == last'.buddyi
               n == last'.n
           IN  /\ i \in 0..(Len(buddylist) - 1)
               /\ Fits(Guy(buddylist, i), n)
               /\ \A j \in 0..(Len(buddylist) - 1) :
                      Fits(Guy(buddylist, j), n) =>
                          /\ Guy(buddylist, i).pages <= Guy(buddylist, j).pages
                          /\ (Guy(buddylist, j).pages = Guy(buddylist, i).pages
                                 => i <= j)
               /\ last'.pa = Guy(buddylist, i).paddr
               /\ Guy(buddylist', i).paddr = last'.pa
               /\ Guy(buddylist', i).inuse = 1]_vars

\* an allocation was served, without a split, from a block that is not the
\* first of the list while a later free block of the same size was passed over
C4_Witness ==
    /\ vm_initialized = 1
    /\ last.op = "alloc_kpages" /\ last.returned /\ last.buddyi > 0
    /\ \E j \in 0..(Len(buddylist) - 1) :
           /\ j > last.buddyi
           /\ Guy(buddylist, j).inuse = 0
           /\ Guy(buddylist, j).pages = Guy(buddylist, last.buddyi).pages
           /\ Guy(buddylist, j).paddr #
                  BuddyPaddr(last.pa, Guy(buddylist, last.buddyi).pages)

\* C5: free_frames(p) clears the inuse flag of the block whose paddr is p and
\* changes nothing else; when no block has paddr p the list is unchanged.
C5_FreeFrameEffect ==
    [][(last'.op = "free_kpages") =>
           LET p == last'.pa
           IN  /\ p = KVADDR_TO_PADDR(last'.addr)
               /\ Len(buddylist') = Len(buddylist)
               /\ \A i \in Blocks :
                      /\ buddylist'[i].paddr = buddylist[i].paddr
                      /\ buddylist'[i].pages = buddylist[i].pages
                      /\ buddylist'[i].inuse =
                             IF buddylist[i].paddr = p THEN 0
                             ELSE buddylist[i].inuse
               /\ ((\A i \in Blocks : buddylist[i].paddr # p)
                      => buddylist' = buddylist)]_vars

\* a free of a block base has run: that block is free while another block
\* is still in use
C5_Witness ==
    /\ last.op = "free_kpages" /\ last.returned
    /\ \E i, j \in Blocks :
           /\ buddylist[i].paddr = last.pa /\ buddylist[i].inuse = 0
           /\ buddylist[j].inuse = 1

\* the largest pages value over all blocks of the list
MaxPages(list) ==
    IF list = <<>> THEN 0
    ELSE CHOOSE m \in {list[i].pages : i \in 1..Len(list)} :
             \A i \in 1..Len(list) : list[i].pages <= m

\* C19: after bootstrap no allocation or free makes the buddy list shorter
\* or its largest block larger; and an allocation of n >= 1 pages made when
\* no block, free or in use, has n pages does not succeed.
C19_FragmentationMonotone ==
    [][(vm_initialized = 1) =>
           /\ Len(buddylist') >= Len(buddylist)
           /\ MaxPages(buddylist') <= MaxPages(buddylist)
           /\ (/\ last'.op = "alloc_kpages" /\ last'.n >= 1
               /\ MaxPages(buddylist) < last'.n) =>
                  /\ ~last'.returned
                  /\ \A i \in 1..Len(buddylist') : buddylist'[i].inuse =
                                                        buddylist[i].inuse]_vars

\* with every block free again after splits, an allocation of 2 pages on a
\* RAM of at least 2 pages did not succeed because no block has 2 pages
C19_Witness ==
    /\ vm_initialized = 1
    /\ last.op = "alloc_kpages" /\ last.n = 2 /\ ~last.returned
    /\ RamPages >= 2
    /\ Len(buddylist) >= 2
    /\ MaxPages(buddylist) < 2
    /\ \A i \in Blocks : buddylist[i].inuse = 0

(***************************************************************************)
(* One address space and its regions: as_create, as_define_region with     *)
(* bases in page 0, in the code range and at the top of the address space, *)
(* aligned and unaligned, and sizes 0, one page and 2^32 - 1, as_destroy,  *)
(* before, during and after vm_bootstrap.                                  *)
(***************************************************************************)
RegionVaddrs ==
    {U32(0, 16), U32(1024, 2748), U32(1040, 0), U32(PAGES32 - 1, 0)}
RegionSizes == {Zero32, U32(1, 0), U32(PAGES32 - 1, PAGE_SIZE - 1)}

InitAS == InitWith(ASRamPages)

CreateOne == live = {} /\ as_create

DefineRegionAny ==
    \E a \in Owned, vaddr \in RegionVaddrs, sz \in RegionSizes :
        as_define_region(a, vaddr, sz)

Destroy == \E t \in Threads, a \in Owned : Free(t) /\ as_destroy(t, a)

DestroyResume == \E t \in Threads : as_destroy_resume(t)

NextRegion ==
    \/ Bootstrap
    \/ BootstrapResume
    \/ CreateOne
    \/ DefineRegionAny
    \/ Destroy
    \/ DestroyResume

SpecRegion == InitAS /\ [][NextRegion]_vars

\* the region fields of a descriptor
Regions(as) == <<as.as_vbase1, as.as_npages1, as.as_vbase2, as.as_npages2>>

\* C10 as stated: on one address space, for all vaddr and size arguments, the
\* first as_define_region call records region 1, the second records region 2
\* without altering region 1, and the third and every later call returns the
\* too-many-regions error and leaves the region fields unchanged; vbase2 # 0
\* implies vbase1 # 0.
C10_AsStated ==
    [][(last'.op = "as_define_region") =>
           LET a == last'.as
               old == spaces[a]
               new == spaces'[a]
               k == ndefine'[a]
           IN  /\ (k = 1 => /\ last'.ret = 0
                            /\ new.as_vbase1 = PageFrame(last'.addr)
                            /\ new.as_npages1 = last'.n)
               /\ (k = 2 => /\ last'.ret = 0
                            /\ new.as_vbase2 = PageFrame(last'.addr)
                            /\ new.as_npages2 = last'.n
                            /\ new.as_vbase1 = old.as_vbase1
                            /\ new.as_npages1 = old.as_npages1)
               /\ (k >= 3 => /\ last'.ret = EUNIMP
                             /\ Regions(new) = Regions(old))
               /\ (new.as_vbase2 # Zero32 => new.as_vbase1 # Zero32)]_vars

\* C10 amended: the first as_define_region call on an address space records
\* region 1; the second records region 2 without altering region 1 provided
\* the base recorded by the first (vaddr & PAGE_FRAME) is nonzero; the third
\* and every later call returns the too-many-regions error and leaves the
\* region fields unchanged provided both recorded bases are nonzero; for all
\* arguments vbase2 # 0 implies vbase1 # 0.  A call made while vbase1 is 0
\* records its region in slot 1, and one made while vbase1 # 0 and
\* vbase2 = 0 records it in slot 2.
C10_DefineRegionSlots ==
    [][(last'.op = "as_define_region") =>
           LET a == last'.as
               old == spaces[a]
               new == spaces'[a]
               k == ndefine'[a]
           IN  /\ (k = 1 => /\ last'.ret = 0
                            /\ new.as_vbase1 = PageFrame(last'.addr)
                            /\ new.as_npages1 = last'.n)
               /\ ((k = 2 /\ old.as_vbase1 # Zero32) =>
                      /\ last'.ret = 0
                      /\ new.as_vbase2 = PageFrame(last'.addr)
                      /\ new.as_npages2 = last'.n
                      /\ new.as_vbase1 = old.as_vbase1
                      /\ new.as_npages1 = old.as_npages1)
               /\ ((k >= 3 /\ old.as_vbase1 # Zero32
                       /\ old.as_vbase2 # Zero32) =>
                      /\ last'.ret = EUNIMP
                      /\ Regions(new) = Regions(old))
               /\ (new.as_vbase2 # Zero32 => new.as_vbase1 # Zero32)
               /\ (old.as_vbase1 = Zero32 =>
                      /\ last'.ret = 0
                      /\ new.as_vbase1 = PageFrame(last'.addr)
                      /\ new.as_npages1 = last'.n
                      /\ new.as_vbase2 = old.as_vbase2
                      /\ new.as_npages2 = old.as_npages2)
               /\ ((old.as_vbase1 # Zero32 /\ old.as_vbase2 = Zero32) =>
                      /\ last'.ret = 0
                      /\ new.as_vbase2 = PageFrame(last'.addr)
                      /\ new.as_npages2 = last'.n
                      /\ new.as_vbase1 = old.as_vbase1
                      /\ new.as_npages1 = old.as_npages1)]_vars

\* a third call on an address space with two regions at nonzero bases was
\* rejected
C10_Witness ==
    /\ last.op = "as_define_region"
    /\ last.ret = EUNIMP
    /\ ndefine[last.as] = 3
    /\ spaces[last.as].as_vbase1 # Zero32
    /\ spaces[last.as].as_vbase2 # Zero32
    /\ spaces[last.as].as_vbase1 # spaces[last.as].as_vbase2

(***************************************************************************)
(* Address spaces and their frames: after vm_bootstrap, up to MaxAS        *)
(* address spaces, each given a first region of two pages and then a       *)
(* second region of one page or of no page, then as_prepare_load,          *)
(* as_define_stack and as_destroy, by two threads whose calls interleave   *)
(* at the places where the code lets another thread run, and kernel        *)
(* allocations of one page and of a stack-sized run in between the steps   *)
(* of a call.                                                              *)
(***************************************************************************)
FirstRegion == <<U32(1024, 0), U32(2, 0)>>
SecondRegions == {<<U32(1040, 0), U32(1, 0)>>, <<U32(1056, 0), Zero32>>}
StackRands == {U32(STACK_RAND_PAGES + 5, 123)}


DefineRegionLoad ==
    \E a \in Owned :
        \/ /\ spaces[a].as_vbase1 = Zero32
           /\ as_define_region(a, FirstRegion[1], FirstRegion[2])
        \/ /\ spaces[a].as_vbase1 # Zero32
           /\ spaces[a].as_vbase2 = Zero32
           /\ \E r \in SecondRegions : as_define_region(a, r[1], r[2])

\* no descriptor has been freed yet
Fresh == \A a \in (1..MaxAS) \ live : spaces[a] = EmptyAS

\* thread t may start a call: alone at any time, next to a call in progress
\* as long as no descriptor has been freed
Starts(t) == Free(t) /\ (Fresh \/ \A u \in Threads : pc[u] = Idle)

\* an address space is created, for a thread that has none, as long as no
\* descriptor has been freed
CreateFresh ==
    /\ Booted
    /\ Fresh
    /\ Cardinality(live) < Cardinality(Threads)
    /\ as_create

PrepareLoad ==
    \E t \in Threads, a \in Owned : Starts(t) /\ as_prepare_load(t, a)

PrepareLoadResume == \E t \in Threads : as_prepare_load_resume(t)

DefineStack ==
    \E t \in Threads, a \in Owned : Starts(t) /\ as_define_stack(t, a)

DestroyAS == \E t \in Threads, a \in Owned : Starts(t) /\ as_destroy(t, a)

DefineStackResume ==
    \E t \in Threads, rand \in StackRands : as_define_stack_resume(t, rand)

\* the bases recorded in the live descriptors, and those a thread inside
\* as_prepare_load has obtained and is about to record
RecordedBases ==
    UNION {{spaces[a].as_pbase1, spaces[a].as_pbase2, spaces[a].as_stackpbase} :
              a \in live}
        \cup {pc[t].addr : t \in {u \in Threads : pc[u].op = "as_prepare_load"}}

\* another thread allocates kernel pages while a call is between two steps
\* and the kernel holds no pages yet
AllocBetween ==
    /\ Fresh
    /\ \E t \in Threads : pc[t].op \in {"as_prepare_load", "as_destroy"}
    /\ \A i \in 1..Len(buddylist) :
           buddylist[i].inuse = 1 => buddylist[i].paddr \in RecordedBases
    /\ \E n \in {1, DUMBVM_STACKPAGES} : alloc_kpages(n)

NextAS ==
    \/ Bootstrap
    \/ BootstrapResume
    \/ CreateFresh
    \/ DefineRegionLoad
    \/ PrepareLoad
    \/ PrepareLoadResume
    \/ DefineStack
    \/ DefineStackResume
    \/ DestroyAS
    \/ DestroyResume
    \/ AllocBetween

SpecAS == InitAS /\ [][NextAS]_vars

\* the physical byte ranges an address space holds: <<start, end>> for each
\* base that is set
HeldRanges(as) ==
    {<<Lin(r[1]), Lin(r[1]) + r[2] * PAGE_SIZE>> :
        r \in {x \in {<<as.as_pbase1, as.as_npages1>>,
                      <<as.as_pbase2, as.as_npages2>>,
                      <<as.as_stackpbase, DUMBVM_STACKPAGES>>} :
                  x[1] # Zero32}}

\* the address spaces an as_destroy call is releasing
BeingDestroyed == {pc[t].as : t \in {u \in Threads : pc[u].op = "as_destroy"}}

\* C6: when as_prepare_load returns 0 the three physical bases are nonzero
\* and page-aligned, and the ranges of region 1, region 2 and the stack are
\* pairwise disjoint and disjoint from the ranges of every other live
\* address space (one that as_destroy is not releasing).
C6_PreparedRangesDisjoint ==
    (last.op = "as_prepare_load" /\ last.returned /\ last.ret = 0) =>
        LET as == spaces[last.as]
            s1 == Lin(as.as_pbase1)
            e1 == s1 + as.as_npages1 * PAGE_SIZE
            s2 == Lin(as.as_pbase2)
            e2 == s2 + as.as_npages2 * PAGE_SIZE
            s3 == Lin(as.as_stackpbase)
            e3 == s3 + DUMBVM_STACKPAGES * PAGE_SIZE
        IN  /\ as.as_pbase1 # Zero32 /\ as.as_pbase1.off = 0
            /\ as.as_pbase2 # Zero32 /\ as.as_pbase2.off = 0
            /\ as.as_stackpbase # Zero32 /\ as.as_stackpbase.off = 0
            /\ ~Overlap(s1, e1, s2, e2)
            /\ ~Overlap(s1, e1, s3, e3)
            /\ ~Overlap(s2, e2, s3, e3)
            /\ \A b \in live \ ({last.as} \cup BeingDestroyed) :
                   \A r \in HeldRanges(spaces[b]) :
                       /\ ~Overlap(s1, e1, r[1], r[2])
                       /\ ~Overlap(s2, e2, r[1], r[2])
                       /\ ~Overlap(s3, e3, r[1], r[2])

\* as_prepare_load returned 0 on an address space with two non-empty regions
\* whose second and third allocation came after another thread's allocation,
\* while another live address space holds its three ranges and a block below
\* the first range is free again
C6_Witness ==
    /\ last.op = "as_prepare_load" /\ last.returned /\ last.ret = 0
    /\ spaces[last.as].as_npages1 = 2
    /\ spaces[last.as].as_npages2 = 1
    /\ spaces[last.as].as_pbase2.pg > spaces[last.as].as_pbase1.pg + 2
    /\ \E b \in live \ {last.as} : Cardinality(HeldRanges(spaces[b])) = 3
    /\ \E i \in Blocks :
           /\ buddylist[i].inuse = 0
           /\ Lin(buddylist[i].paddr) < Lin(spaces[last.as].as_pbase1)

\* C9: every as_prepare_load call on an address space whose three physical
\* bases are 0, whatever regions were defined on it, returns, with 0 or
\* ENOMEM: none of its frame allocations ends in a panic.
C9_PrepareLoadReturns ==
    [][(/\ last'.op \in {"as_prepare_load", "as_prepare_load:getppages"}
        /\ last'.n >= 1) =>
           /\ last'.returned
           /\ ~panicked'
           /\ last'.ret \in {0, ENOMEM}]_vars

\* C11: each of the three frees of as_destroy, for the base recorded in
\* as_pbase1, as_pbase2 and as_stackpbase in turn (whether all three or only
\* some were reserved), clears the inuse flag of the block with that base
\* and leaves the inuse flag of every other block, every base and size, and
\* the length of the list as they were.
C11_DestroyFreesOwnBlocks ==
    [][(last'.op \in {"as_destroy", "as_destroy:freeppage"}
           /\ last'.returned) =>
           LET as == spaces[last'.as]
               k == last'.n
               p == IF k = 1 THEN as.as_pbase1
                    ELSE IF k = 2 THEN as.as_pbase2
                    ELSE as.as_stackpbase
           IN  /\ k \in 1..3
               /\ last'.pa = p
               /\ (last'.op = "as_destroy") = (k = 3)
               /\ Len(buddylist') = Len(buddylist)
               /\ \A i \in Blocks :
                      /\ buddylist'[i].paddr = buddylist[i].paddr
                      /\ buddylist'[i].pages = buddylist[i].pages
                      /\ buddylist'[i].inuse =
                             IF buddylist[i].paddr = p THEN 0
                             ELSE buddylist[i].inuse
               /\ (p # Zero32 =>
                      \E i \in Blocks : buddylist[i].paddr = p
                                            /\ buddylist[i].inuse = 1)]_vars

\* an address space holding three ranges was destroyed: its three blocks are
\* free while another live address space still holds its own three
C11_Witness ==
    /\ last.op = "as_destroy" /\ last.returned
    /\ LET as == spaces[last.as]
           bases == {as.as_pbase1, as.as_pbase2, as.as_stackpbase}
       IN  /\ last.as \notin live
           /\ Cardinality(bases \ {Zero32}) = 3
           /\ \A b \in bases :
                  \E i \in Blocks : buddylist[i].paddr = b
                                        /\ buddylist[i].inuse = 0
    /\ \E b \in live :
           /\ Cardinality(HeldRanges(spaces[b])) = 3
           /\ \A i \in Blocks :
                  buddylist[i].paddr \in {spaces[b].as_pbase1, spaces[b].as_pbase2,
                                           spaces[b].as_stackpbase}
                      => buddylist[i].inuse = 1

(***************************************************************************)
(* Faults: one address space with region 1 at 0x00400000 (two pages), a    *)
(* second region that is apart from it, overlaps it, or ends at the top of *)
(* the address space, and a stack, each set up once after vm_bootstrap;    *)
(* the current thread is given no address space, an unfinished one or the  *)
(* finished one; any number of read faults on the first page of region 1,  *)
(* which fill the TLB, and then MaxFaults faults of any kind and address.  *)
(***************************************************************************)
FirstRegionVM == <<U32(1024, 2748), U32(1, 0)>>
SecondRegionsVM ==
    {<<U32(1040, 0), U32(1, 0)>>, <<U32(1025, 0), U32(1, 0)>>,
     <<U32(PAGES32 - 1, 0), U32(1, 0)>>}
StackRandVM == U32(STACK_RAND_PAGES + 5, 123)
FillAddr == U32(1024, 2748)
FaultInputs ==
    {<<VM_FAULT_READ, FillAddr>>,
     <<VM_FAULT_WRITE, U32(1025, 0)>>,
     <<VM_FAULT_READ, U32(1040, 4)>>,
     <<VM_FAULT_READ, U32(PAGES32 - 1, 0)>>,
     <<VM_FAULT_READ, U32(65536, 0)>>,
     <<VM_FAULT_WRITE, Sub32(StackTop(StackRandVM), U32(0, 1))>>,
     <<VM_FAULT_READONLY, FillAddr>>,
     <<VM_FAULT_READONLY + 1, FillAddr>>}

DefineRegionVM ==
    \E a \in Owned :
        \/ /\ spaces[a].as_vbase1 = Zero32
           /\ as_define_region(a, FirstRegionVM[1], FirstRegionVM[2])
        \/ /\ spaces[a].as_vbase1 # Zero32
           /\ spaces[a].as_vbase2 = Zero32
           /\ \E r \in SecondRegionsVM : as_define_region(a, r[1], r[2])

PrepareLoadOnce ==
    \E t \in Threads, a \in Owned :
        /\ Free(t)
        /\ Booted
        /\ spaces[a].as_stackpbase = Zero32
        /\ as_prepare_load(t, a)

DefineStackVM ==
    \E t \in Threads, a \in Owned :
        /\ Free(t)
        /\ spaces[a].as_stackvbase = Zero32
        /\ as_define_stack(t, a)

DefineStackResumeVM == \E t \in Threads : as_define_stack_resume(t, StackRandVM)

\* the descriptors an as_copy in progress has made and not handed back yet
Private == {pc[t].new : t \in Threads} \ {0}

ThreadSwitch == \E a \in (live \ Private) \cup {0} : thread_switch(a)

Activate == \E a \in live \cup {0} : as_activate(a)

VmFaultAny ==
    /\ nfaults < MaxFaults
    /\ nfaults' = nfaults + 1
    /\ \E t \in Threads, in \in FaultInputs :
           Free(t) /\ vm_fault(t, in[1], in[2])

VmFaultFill ==
    /\ nfaults = 0
    /\ UNCHANGED nfaults
    /\ \E t \in Threads : Free(t) /\ vm_fault(t, VM_FAULT_READ, FillAddr)

VmFaultResume == \E t \in Threads : vm_fault_resume(t)

NextVM ==
    \/ Bootstrap
    \/ BootstrapResume
    \/ CreateOne
    \/ DefineRegionVM
    \/ PrepareLoadOnce
    \/ PrepareLoadResume
    \/ DefineStackVM
    \/ DefineStackResumeVM
    \/ ThreadSwitch
    \/ Activate
    \/ VmFaultAny
    \/ VmFaultFill
    \/ VmFaultResume
    \/ tlb_printstats

SpecVM == InitAS /\ [][NextVM]_vars

\* an address space with both regions and the stack reserved
Prepared(as) ==
    /\ as.as_vbase1 # Zero32 /\ as.as_npages1 > 0 /\ as.as_pbase1 # Zero32
    /\ as.as_vbase2 # Zero32 /\ as.as_npages2 > 0 /\ as.as_pbase2 # Zero32
    /\ as.as_stackpbase # Zero32

\* the three ranges of an address space in the order region 1, region 2,
\* stack: first virtual page, page count, physical base
RangesOf(as) ==
    <<[start |-> as.as_vbase1.pg, n |-> as.as_npages1, pbase |-> as.as_pbase1],
      [start |-> as.as_vbase2.pg, n |-> as.as_npages2, pbase |-> as.as_pbase2],
      [start |-> as.as_stackvbase.pg - DUMBVM_STACKPAGES,
       n |-> DUMBVM_STACKPAGES, pbase |-> as.as_stackpbase]>>

\* page vpn lies in range r
Holds(r, vpn) == r.start <= vpn /\ vpn < r.start + r.n
\* pa = va - vbase + pbase for the page vpn of range r
PaIn(r, vpn) == U32(r.pbase.pg + (vpn - r.start), r.pbase.off)

\* the step is the return of a vm_fault call that had released the
\* interrupt level and printed the buddy list
FaultPrinted == \E t \in Threads : pc[t].op = "vm_fault" /\ pc'[t] = Idle

\* the step is a vm_fault call from its entry to its return or to the
\* splx(spl) of the path that goes on to print the buddy list
FaultEntered == last'.op \in {"vm_fault", "vm_fault:splx"} /\ ~FaultPrinted

\* C7: a READ or WRITE fault on an address whose page lies in region 1,
\* region 2 or the stack range of the current thread's prepared address
\* space, taken while a TLB slot is not valid, returns 0, and the
\* lowest-index slot that was not valid receives ehi = the page-aligned
\* fault address and elo with VALID and DIRTY set and the frame
\* pa = va - vbase + pbase of a range holding the page.
C7_FaultTranslates ==
    [][(/\ FaultEntered
        /\ last'.n \in {VM_FAULT_READ, VM_FAULT_WRITE}
        /\ curas \in live
        /\ Prepared(spaces[curas])
        /\ \E k \in 1..3 : Holds(RangesOf(spaces[curas])[k], last'.addr.pg)
        /\ InvalidSlots(tlb) # {}) =>
           /\ last'.op = "vm_fault"
           /\ last'.returned
           /\ last'.ret = 0
           /\ LET i == CHOOSE x \in InvalidSlots(tlb) :
                           \A y \in InvalidSlots(tlb) : x <= y
                  e == tlb'[i]
              IN  /\ last'.buddyi = i
                  /\ e.ehi = U32(last'.addr.pg, 0)
                  /\ BitSet(e.elo, TLBLO_VALID)
                  /\ BitSet(e.elo, TLBLO_DIRTY)
                  /\ \E k \in 1..3 :
                         /\ Holds(RangesOf(spaces[curas])[k], last'.addr.pg)
                         /\ e.elo.pg = PaIn(RangesOf(spaces[curas])[k],
                                            last'.addr.pg).pg]_vars

\* C8: on every return of vm_fault and of the frame allocation (directly or
\* through as_prepare_load) the interrupt priority level is the level the
\* caller had at entry.
C8_SplRestored ==
    [][(/\ last'.op \in {"vm_fault", "vm_fault:splx", "alloc_kpages",
                         "as_prepare_load", "as_prepare_load:getppages"}
        /\ last'.returned) => curspl' = curspl]_vars

\* page vpn lies in none of region 1, region 2 and the stack range
InNoRange(as, vpn) == \A k \in 1..3 : ~Holds(RangesOf(as)[k], vpn)

\* C14: vm_fault returns EINVAL for every fault kind other than READONLY,
\* READ and WRITE; for READ and WRITE it returns EFAULT when the current
\* thread has no address space and when the page of the fault address lies
\* in none of region 1, region 2 and the stack range (after it has restored
\* the interrupt level and printed the buddy list); in each of these
\* outcomes the TLB is left as it was.
C14_FaultErrors ==
    [][/\ (last'.op \in {"vm_fault", "vm_fault:splx"} /\ ~FaultPrinted) =>
           LET kind == last'.n
               rw == kind \in {VM_FAULT_READ, VM_FAULT_WRITE}
           IN  /\ (~rw /\ kind # VM_FAULT_READONLY) =>
                      /\ last'.op = "vm_fault"
                      /\ last'.returned /\ last'.ret = EINVAL /\ tlb' = tlb
               /\ (rw /\ curas = 0) =>
                      /\ last'.op = "vm_fault"
                      /\ last'.returned /\ last'.ret = EFAULT /\ tlb' = tlb
               /\ (rw /\ curas \in live
                      /\ InNoRange(spaces[curas], last'.addr.pg)) =>
                      /\ last'.op = "vm_fault:splx"
                      /\ last'.returned
                      /\ tlb' = tlb
       /\ (last'.op = "vm_fault" /\ FaultPrinted) =>
              /\ last'.returned /\ last'.ret = EFAULT
              /\ tlb' = tlb]_vars

\* C15: after as_activate returns, whatever the TLB held and whatever the
\* argument, no TLB slot has its VALID bit set, and the interrupt priority
\* level is the one the caller had at entry.
C15_ActivateFlushes ==
    [][(last'.op = "as_activate") =>
           /\ last'.returned
           /\ \A i \in 0..(NUM_TLB - 1) : ~BitSet(tlb'[i].elo, TLBLO_VALID)
           /\ InvalidSlots(tlb') = 0..(NUM_TLB - 1)
           /\ curspl' = curspl]_vars

\* as_activate ran on a TLB whose 64 slots were all valid, with an argument
\* that is not the current thread's address space
C15_Witness ==
    /\ last.op = "as_activate"
    /\ last.n = NUM_TLB
    /\ last.as # curas
    /\ InvalidSlots(tlb) = 0..(NUM_TLB - 1)

(***************************************************************************)
(* Copies: one address space set up as above, whose program stores values  *)
(* to the first and last page of region 1 and the last page of its stack;  *)
(* as_copy of any live address space, as_destroy of a copy, and kernel     *)
(* allocations of a stack-sized run of pages, between the steps of a copy  *)
(* as well, which use up the frames a copy needs.                          *)
(***************************************************************************)
StoreValues == {1, 2}

\* the pages a program stores to: the first and last page of region 1 and
\* the last page of the stack
StorePages(as) ==
    (IF as.as_pbase1 = Zero32 \/ as.as_npages1 = 0 THEN {}
     ELSE {as.as_pbase1.pg, as.as_pbase1.pg + as.as_npages1 - 1})
    \cup (IF as.as_stackpbase = Zero32 THEN {}
          ELSE {as.as_stackpbase.pg + DUMBVM_STACKPAGES - 1})

\* the program of the first address space stores to a page it has not
\* written yet, while it is alone and in no call
Store ==
    /\ live = {1}
    /\ 1 \in Owned
    /\ \E v \in StoreValues :
           \E pg \in StorePages(spaces[1]) : mem[pg] = 0 /\ store(pg, v)

\* an address space is copied while there are fewer address spaces than
\* threads, or when no descriptor is left for the copy
Copy ==
    \E t \in Threads, o \in Owned :
        /\ Free(t)
        /\ Booted
        /\ Cardinality(live) < Cardinality(Threads) \/ live = 1..MaxAS
        /\ as_copy(t, o)

CopyResume == \E t \in Threads : as_copy_resume(t)

\* a copy is destroyed; the first address space stays
DestroyCopy ==
    \E t \in Threads, a \in Owned \ {1} : Free(t) /\ as_destroy(t, a)

\* the kernel takes a stack-sized run of pages once the first address
\* space has its stack
AllocStackRun ==
    /\ 1 \in live
    /\ spaces[1].as_stackvbase # Zero32
    /\ alloc_kpages(DUMBVM_STACKPAGES)

NextCopy ==
    \/ Bootstrap
    \/ BootstrapResume
    \/ CreateOne
    \/ DefineRegionLoad
    \/ PrepareLoadOnce
    \/ PrepareLoadResume
    \/ DefineStackVM
    \/ DefineStackResumeVM
    \/ Store
    \/ Copy
    \/ CopyResume
    \/ DestroyCopy
    \/ DestroyResume
    \/ AllocStackRun

SpecCopy == InitAS /\ [][NextCopy]_vars

\* the physical pages of the three ranges of an address space, as pairs of
\* the first page and the page count
PageRuns(as) ==
    {<<as.as_pbase1.pg, as.as_npages1>>, <<as.as_pbase2.pg, as.as_npages2>>,
     <<as.as_stackpbase.pg, DUMBVM_STACKPAGES>>}

\* the steps of as_copy
CopyOps ==
    {"as_copy", "as_copy:as_create", "as_copy:getppages",
     "as_copy:as_prepare_load", "as_copy:memmove", "as_copy:freeppage"}

\* C12: when as_copy succeeds the new address space has old's vbase1,
\* npages1, vbase2, npages2 and stackvbase, its three physical bases are
\* nonzero and differ from old's, its physical ranges are disjoint from
\* old's, every page of its region 1, region 2 and stack holds what the
\* corresponding page of old holds, and no step of the copy changes old's
\* descriptor or pages.
C12_CopyIsDeep ==
    [][/\ (last'.op = "as_copy" /\ last'.returned /\ last'.ret = 0) =>
              LET old == spaces'[last'.n]
                  new == spaces'[last'.as]
              IN  /\ last'.as \in live' \ {last'.n}
                  /\ new.as_vbase1 = old.as_vbase1
                  /\ new.as_npages1 = old.as_npages1
                  /\ new.as_vbase2 = old.as_vbase2
                  /\ new.as_npages2 = old.as_npages2
                  /\ new.as_stackvbase = old.as_stackvbase
                  /\ new.as_pbase1 # Zero32 /\ new.as_pbase1 # old.as_pbase1
                  /\ new.as_pbase2 # Zero32 /\ new.as_pbase2 # old.as_pbase2
                  /\ new.as_stackpbase # Zero32
                  /\ new.as_stackpbase # old.as_stackpbase
                  /\ \A r \in HeldRanges(new), q \in HeldRanges(old) :
                         ~Overlap(r[1], r[2], q[1], q[2])
                  /\ \A k \in 0..(old.as_npages1 - 1) :
                         mem'[new.as_pbase1.pg + k] =
                             Content(mem', old.as_pbase1.pg + k)
                  /\ \A k \in 0..(old.as_npages2 - 1) :
                         mem'[new.as_pbase2.pg + k] =
                             Content(mem', old.as_pbase2.pg + k)
                  /\ \A k \in 0..(DUMBVM_STACKPAGES - 1) :
                         mem'[new.as_stackpbase.pg + k] =
                             Content(mem', old.as_stackpbase.pg + k)
       /\ (last'.op \in CopyOps /\ last'.returned) =>
              /\ spaces'[last'.n] = spaces[last'.n]
              /\ \A run \in PageRuns(spaces[last'.n]) :
                     \A k \in 0..(run[2] - 1) :
                         (run[1] + k) \in DOMAIN mem =>
                             mem'[run[1] + k] = mem[run[1] + k]]_vars

\* a prepared address space whose region 1 holds different values in its two
\* pages, and values in region 2 and on the stack, was copied: the copy holds
\* the same values in frames of its own
C12_Witness ==
    /\ last.op = "as_copy" /\ last.returned /\ last.ret = 0
    /\ LET old == spaces[last.n]
           new == spaces[last.as]
       IN  /\ old.as_npages1 = 2 /\ old.as_pbase1 # Zero32
           /\ mem[old.as_pbase1.pg] = 1
           /\ mem[old.as_pbase1.pg + 1] = 2
           /\ mem[new.as_pbase1.pg] = 1
           /\ mem[new.as_pbase1.pg + 1] = 2
           /\ old.as_npages2 = 1
           /\ mem[new.as_stackpbase.pg + DUMBVM_STACKPAGES - 1] = 1
           /\ new.as_pbase1 # old.as_pbase1

\* the physical pages that lie in blocks marked in use
InUsePages(list) ==
    UNION {{list[i].paddr.pg + k : k \in 0..(list[i].pages - 1)} :
              i \in {j \in 1..Len(list) : list[j].inuse = 1}}

\* the count of the frame allocation an as_copy at step s makes next
CopyCount(as, s) ==
    IF s = 1 THEN as.as_npages1
    ELSE IF s = 2 THEN as.as_npages2
    ELSE DUMBVM_STACKPAGES

\* C13: when a frame allocation for the new address space fails during
\* as_copy, the call does not panic and goes on to release what it reserved
\* and to return ENOMEM; when it returns ENOMEM every block it reserved is
\* free again, no new address space is handed to the caller, and no step
\* changes old.
C13_CopyFailureReleases ==
    [][\A t \in Threads :
           (pc[t].op = "as_copy" /\ last'.op \in CopyOps
               /\ last'.n = pc[t].as) =>
               /\ (/\ pc[t].step \in 1..3
                   /\ vm_initialized = 1
                   /\ NoFit(buddylist,
                            CopyCount(spaces[pc[t].new], pc[t].step))) =>
                      /\ last'.returned
                      /\ ~panicked'
                      /\ pc'[t].op = "as_copy"
                      /\ pc'[t].addr = Zero32
               /\ (last'.returned /\ last'.ret = ENOMEM) =>
                      /\ last'.op = "as_copy"
                      /\ last'.as = 0
                      /\ pc[t].new \notin live'
                      /\ \A i \in 1..Len(buddylist') :
                             buddylist'[i].paddr \in
                                 {spaces[pc[t].new].as_pbase1,
                                  spaces[pc[t].new].as_pbase2,
                                  spaces[pc[t].new].as_stackpbase}
                                 => buddylist'[i].inuse = 0
               /\ spaces'[pc[t].as] = spaces[pc[t].as]]_vars

(***************************************************************************)
(* Stacks: one address space with the code region at 0x00400000 and a data *)
(* region at 0x10000000 or just below 0x005c0000, prepared, then           *)
(* as_define_stack with random words 0, 0xfff, the modulus minus one, the  *)
(* modulus, 2^32 - 1 and one that puts the stack top at 0x10001000, then   *)
(* faults on the lowest and highest byte of the stack range.  While the    *)
(* read of the random device is pending another thread may destroy the     *)
(* address space, and a new one may take its descriptor.                   *)
(***************************************************************************)
SecondRegionsStack ==
    {<<U32(65536, 0), U32(1, 0)>>, <<U32(STACK_MIN_PAGE - 12, 0), U32(1, 0)>>}

StackRandsAll ==
    {Zero32, U32(0, PAGE_SIZE - 1),
     U32(STACK_RAND_PAGES - 1, PAGE_SIZE - 1), U32(STACK_RAND_PAGES, 0),
     U32(PAGES32 - 1, PAGE_SIZE - 1), U32(65537 - STACK_MIN_PAGE, 0)}

DefineRegionStack ==
    \E a \in Owned :
        \/ /\ spaces[a].as_vbase1 = Zero32
           /\ as_define_region(a, FirstRegion[1], FirstRegion[2])
        \/ /\ spaces[a].as_vbase1 # Zero32
           /\ spaces[a].as_vbase2 = Zero32
           /\ \E r \in SecondRegionsStack : as_define_region(a, r[1], r[2])

\* as_prepare_load before vm_bootstrap has finished: the frames come from
\* the boot-time stealer, and the random device is not open yet
PrepareLoadEarly ==
    \E t \in Threads, a \in Owned :
        /\ Free(t)
        /\ ~Booted
        /\ spaces[a].as_stackpbase = Zero32
        /\ as_prepare_load(t, a)

DefineStackResumeAny ==
    \E t \in Threads, rand \in StackRandsAll : as_define_stack_resume(t, rand)

\* the address space is destroyed by another thread while its
\* as_define_stack waits for the random device
DestroyShared ==
    \E t \in Threads, a \in live :
        /\ Free(t)
        /\ \E u \in Threads : pc[u] = At("as_define_stack", a, 0, 1)
        /\ as_destroy(t, a)

\* a fault on the lowest or the highest byte of the current stack range, or
\* on the byte just above it
StackFault ==
    /\ curas \in live
    /\ spaces[curas].as_stackvbase # Zero32
    /\ nfaults < MaxFaults
    /\ nfaults' = nfaults + 1
    /\ \E t \in Threads, d \in {U32(0, 1), U32(DUMBVM_STACKPAGES, 0), Zero32} :
           /\ Free(t)
           /\ vm_fault(t, VM_FAULT_WRITE, Sub32(spaces[curas].as_stackvbase, d))

NextStack ==
    \/ Bootstrap
    \/ BootstrapResume
    \/ CreateOne
    \/ DefineRegionStack
    \/ PrepareLoadOnce
    \/ PrepareLoadEarly
    \/ PrepareLoadResume
    \/ DefineStackVM
    \/ DefineStackResumeAny
    \/ DestroyShared
    \/ DestroyResume
    \/ ThreadSwitch
    \/ StackFault
    \/ VmFaultResume

SpecStack == InitAS /\ [][NextStack]_vars

\* C16: whatever regions as_define_region recorded and whatever word the
\* random device gives, the stack range [stackvbase - 12 pages, stackvbase)
\* that as_define_stack chooses shares no page with region 1 or region 2
\* and ends at or below 0x80000000, and a fault on an address of the stack
\* range is translated to a frame of the stack.
C16_StackApartFromRegions ==
    [][/\ (last'.op = "as_define_stack" /\ last'.returned) =>
              LET as == spaces'[last'.as]
                  top == as.as_stackvbase.pg
                  base == top - DUMBVM_STACKPAGES
              IN  /\ top <= KSEG0_PAGE
                  /\ ~Overlap(base, top, as.as_vbase1.pg,
                              as.as_vbase1.pg + as.as_npages1)
                  /\ ~Overlap(base, top, as.as_vbase2.pg,
                              as.as_vbase2.pg + as.as_npages2)
       /\ (/\ last'.op = "vm_fault" /\ last'.returned /\ last'.ret = 0
           /\ ~FaultPrinted
           /\ curas \in live
           /\ Holds(RangesOf(spaces[curas])[3], last'.addr.pg)) =>
              LET f == tlb'[last'.buddyi].elo.pg
                  sp == spaces[curas].as_stackpbase.pg
              IN  sp <= f /\ f < sp + DUMBVM_STACKPAGES]_vars

\* C17: for every 32-bit word r read from the random device as_define_stack
\* stores stackvbase = ((r mod 0x7fa40000) + 0x005c0000) & PAGE_FRAME, the
\* sum staying below 2^32, so that stackvbase is page-aligned and lies in
\* [0x005c0000, 0x80000000); it hands the same value back through stackptr
\* and returns 0.
C17_StackTopInRange ==
    [][(\E t \in Threads : pc[t].op = "as_define_stack" /\ pc'[t] = Idle) =>
           LET r == last'.addr
               sumpg == (r.pg % STACK_RAND_PAGES) + STACK_MIN_PAGE
               v == spaces'[last'.as].as_stackvbase
           IN  /\ sumpg < PAGES32
               /\ v = U32(sumpg, 0)
               /\ STACK_MIN_PAGE <= v.pg /\ v.pg < KSEG0_PAGE
               /\ v.off = 0
               /\ last'.op = "as_define_stack"
               /\ last'.returned
               /\ last'.raddr = v
               /\ last'.ret = 0]_vars

\* as_define_stack returned for a random word at or above the modulus with
\* nonzero offset bits
C17_Witness ==
    /\ last.op = "as_define_stack" /\ last.returned
    /\ last.addr.pg >= STACK_RAND_PAGES
    /\ last.addr.off # 0
    /\ spaces[last.as].as_stackvbase = last.raddr
    /\ last.raddr.pg < last.addr.pg

\* C18: every operation that scans or changes the buddy list after
\* bootstrap (the frame allocation, and the free reached through
\* free_kpages and as_destroy) does so with the interrupt priority level
\* raised to its highest value.
C18_ListUnderGuard ==
    (/\ vm_initialized = 1
     /\ last.op \in {"alloc_kpages", "free_kpages", "as_prepare_load",
                     "as_prepare_load:getppages", "as_destroy",
                     "as_destroy:freeppage", "as_copy:getppages",
                     "as_copy:freeppage"}
     /\ listspl # -1) => listspl = SPL_HIGH

(***************************************************************************)
(* Translations and frames over the life of address spaces: the address    *)
(* space set up as for the frame checks, made current, faulted on, copied  *)
(* and destroyed, with kernel allocations in between.                      *)
(***************************************************************************)
\* the first address space, once it has its stack, is copied while no copy
\* of it is live
CopyFirst ==
    \E t \in Threads :
        /\ Free(t)
        /\ Booted
        /\ live = {1}
        /\ 1 \in Owned
        /\ spaces[1].as_stackvbase # Zero32
        /\ as_copy(t, 1)

NextTLB ==
    \/ Bootstrap
    \/ BootstrapResume
    \/ CreateOne
    \/ DefineRegionLoad
    \/ PrepareLoadOnce
    \/ PrepareLoadResume
    \/ DefineStackVM
    \/ DefineStackResumeVM
    \/ ThreadSwitch
    \/ Activate
    \/ VmFaultAny
    \/ VmFaultResume
    \/ CopyFirst
    \/ CopyResume
    \/ Destroy
    \/ DestroyResume
    \/ AllocStackRun

SpecTLB == InitAS /\ [][NextTLB]_vars

\* the physical page pg lies in a block that is marked in use and whose base
\* is one of the three bases of the address space
InOwnFrames(list, as, pg) ==
    \E i \in 1..Len(list) :
        /\ list[i].inuse = 1
        /\ list[i].paddr \in {as.as_pbase1, as.as_pbase2, as.as_stackpbase}
        /\ list[i].paddr.pg <= pg
        /\ pg < list[i].paddr.pg + list[i].pages

\* C20: in every state reached through as_prepare_load, as_copy, vm_fault,
\* as_activate and as_destroy (one in which no as_destroy is part-way through
\* the current thread's address space), every TLB slot with VALID set
\* translates to a page of a block that is marked in use and reserved for
\* the current thread's address space, which is live; as_destroy leaves no
\* valid entry for a frame it freed.
C20_NoStaleTranslation ==
    curas \notin BeingDestroyed =>
        \A i \in 0..(NUM_TLB - 1) :
            BitSet(tlb[i].elo, TLBLO_VALID) =>
                /\ curas \in live
                /\ InOwnFrames(buddylist, spaces[curas], tlb[i].elo.pg)
====
